---- MODULE Spec2Model ----
(***************************************************************************)
(* Model of app.py, the GA4 monthly category report: one run of the        *)
(* script from the sidebar inputs to what is rendered.  Text values        *)
(* (regex text, dimension and metric values) are sequences of one-         *)
(* character strings, so that splitting, stripping, padding and integer    *)
(* parsing are computed rather than assumed.                               *)
(***************************************************************************)
EXTENDS Integers, Sequences, FiniteSets, TLC

VARIABLES
    pc,             \* position of the script
    fetch_btn,      \* st.sidebar.button result
    cred_file,      \* class of the uploaded file: "none" when nothing is uploaded
    selected_sites, \* st.sidebar.multiselect result, in selection order
    regex_input,    \* st.sidebar.text_area result
    creds_parsed,   \* json.loads(cred_file...) has been called in this run
    client,         \* BetaAnalyticsDataClient has been constructed
    regex_list,     \* line 143
    final_data,     \* line 145, the accumulating dataset
    pi,             \* index of property_id in selected_sites (outer loop)
    ri,             \* index of regex in regex_list (inner loop)
    outstanding,    \* run_report calls sent and not yet answered
    requests,       \* every RunReportRequest sent, in order
    responses,      \* response.rows of every call that returned, in order
    shown,          \* elements rendered by st.error/success/dataframe/...
    exc,            \* exception that left the script uncaught, or "none"
    raw_row,        \* a single response row (row flattening)
    report_row      \* its flattened ReportRow, or the failure

vars == <<pc, fetch_btn, cred_file, selected_sites, regex_input, creds_parsed,
          client, regex_list, final_data, pi, ri, outstanding, requests,
          responses, shown, exc, raw_row, report_row>>

----------------------------------------------------------------------------
(* Bounds *)

MaxTextLen == 5

MaxMonthLen == 2

MaxRows == 2

----------------------------------------------------------------------------
(* Text helpers *)

LineBreaks == {"\n", "\r"}

Whitespace == {" ", "\n", "\r"}

Digits == {"0", "1", "2", "3", "4", "5", "6", "7", "8", "9"}

SeqsUpTo(S, n) == UNION {[1..k -> S] : k \in 0..n}

RECURSIVE SplitFrom(_, _, _, _)
SplitFrom(s, i, cur, acc) ==
    IF i > Len(s)
    THEN IF cur = <<>> THEN acc ELSE Append(acc, cur)
    ELSE IF s[i] = "\r" /\ i < Len(s) /\ s[i + 1] = "\n"
    THEN SplitFrom(s, i + 2, <<>>, Append(acc, cur))
    ELSE IF s[i] \in LineBreaks
    THEN SplitFrom(s, i + 1, <<>>, Append(acc, cur))
    ELSE SplitFrom(s, i + 1, Append(cur, s[i]), acc)

splitlines(s) == SplitFrom(s, 1, <<>>, <<>>)

RECURSIVE lstrip(_)
lstrip(s) ==
    IF s # <<>> /\ Head(s) \in Whitespace THEN lstrip(Tail(s)) ELSE s

RECURSIVE rstrip(_)
rstrip(s) ==
    IF s # <<>> /\ s[Len(s)] \in Whitespace
    THEN rstrip(SubSeq(s, 1, Len(s) - 1))
    ELSE s

strip(s) == rstrip(lstrip(s))

\* variant: a pattern that occurs again further down is dropped
RECURSIVE StripNonBlankDedup(_)
StripNonBlankDedup(lines) ==
    IF lines = <<>> THEN <<>>
    ELSE IF /\ strip(Head(lines)) # <<>>
            /\ \A k \in 2..Len(lines) : strip(lines[k]) # strip(Head(lines))
    THEN <<strip(Head(lines))>> \o StripNonBlankDedup(Tail(lines))
    ELSE StripNonBlankDedup(Tail(lines))

\* line 143: [r.strip() for r in regex_input.splitlines() if r.strip()]
RECURSIVE StripNonBlank(_)
StripNonBlank(lines) ==
    IF lines = <<>> THEN <<>>
    ELSE IF strip(Head(lines)) # <<>>
    THEN <<strip(Head(lines))>> \o StripNonBlank(Tail(lines))
    ELSE StripNonBlank(Tail(lines))

RegexList(text) == StripNonBlank(splitlines(text))

Zeros(n) == [k \in 1..n |-> "0"]

\* variant: pads on the right
zfillRight(s, width) ==
    IF Len(s) >= width THEN s ELSE s \o Zeros(width - Len(s))

\* str.zfill: pads on the left, after a leading sign when there is one
zfill(s, width) ==
    IF Len(s) >= width THEN s
    ELSE IF s # <<>> /\ Head(s) \in {"+", "-"}
    THEN <<Head(s)>> \o Zeros(width - Len(s)) \o Tail(s)
    ELSE Zeros(width - Len(s)) \o s

DigitValue(c) ==
    CASE c = "0" -> 0 [] c = "1" -> 1 [] c = "2" -> 2 [] c = "3" -> 3
      [] c = "4" -> 4 [] c = "5" -> 5 [] c = "6" -> 6 [] c = "7" -> 7
      [] c = "8" -> 8 [] c = "9" -> 9

RECURSIVE DigitsValue(_)
DigitsValue(ds) ==
    IF ds = <<>> THEN 0
    ELSE 10 * DigitsValue(SubSeq(ds, 1, Len(ds) - 1)) + DigitValue(ds[Len(ds)])

IsDigits(ds) == ds # <<>> /\ \A k \in 1..Len(ds) : ds[k] \in Digits

Unsigned(s) == IF s # <<>> /\ Head(s) \in {"+", "-"} THEN Tail(s) ELSE s

\* int(str): surrounding whitespace and one sign are accepted, then digits only
IntParses(s) == IsDigits(Unsigned(strip(s)))

int(s) ==
    IF strip(s) # <<>> /\ Head(strip(s)) = "-"
    THEN 0 - DigitsValue(Unsigned(strip(s)))
    ELSE DigitsValue(Unsigned(strip(s)))

----------------------------------------------------------------------------
(* Property directory (two entries of the 37 of view_id_name_mapping) *)

PropertyIds == {"424738282", "424752920"}

view_id_name_mapping ==
    [p \in PropertyIds |-> IF p = "424738282" THEN "DNA English" ELSE "DNA Hindi"]

----------------------------------------------------------------------------
(* fetch_ga4_data *)

\* the dict appended at lines 113-119 for one response row
ReportRow(site_name, regex, row) ==
    [Site        |-> site_name,
     Year_Month  |-> row.dimension_values[1] \o <<"-">> \o zfill(row.dimension_values[2], 2),
     Total_Users |-> int(row.metric_values[1]),
     Pageviews   |-> int(row.metric_values[2]),
     Regex       |-> regex]

\* int() raises ValueError on a metric value that is no integer literal
RowRaises(row) == ~IntParses(row.metric_values[1]) \/ ~IntParses(row.metric_values[2])

FetchRaises(rows) == \E k \in 1..Len(rows) : RowRaises(rows[k])

\* the list returned at line 121
FetchRows(site_name, regex, rows) ==
    [k \in 1..Len(rows) |-> ReportRow(site_name, regex, rows[k])]

----------------------------------------------------------------------------
(* Inputs *)

\* what the file uploader holds: nothing, bytes that are no JSON, JSON that is
\* no service-account key, or a usable key
CredFiles == {"none", "not_json", "not_service_account", "service_account"}

\* a multiselect returns distinct options in the order they were picked
SiteSelections ==
    {sel \in SeqsUpTo(PropertyIds, Cardinality(PropertyIds)) :
        \A a, b \in 1..Len(sel) : a # b => sel[a] # sel[b]}

TextChars == {"a", "b", " ", "\n", "\r"}

Texts == SeqsUpTo(TextChars, MaxTextLen)

\* regex texts of the runs: empty, blank, one pattern, and two patterns with
\* padding and an empty line between them
RunTexts ==
    {<<>>, <<"\n", " ">>, <<"a">>, <<" ", "a", "\n", "\n", "b", " ">>}

ResponseRow(year, month, users, views) ==
    [dimension_values |-> <<year, month>>, metric_values |-> <<users, views>>]

\* rows the service may answer with; the last has a non-integer metric value
RawRows ==
    {ResponseRow(<<"2", "0", "2", "4">>, <<"8">>, <<"1", "5", "0">>, <<"3", "0", "0">>),
     ResponseRow(<<"2", "0", "2", "4">>, <<"1", "1">>, <<"7">>, <<"0">>),
     ResponseRow(<<"2", "0", "2", "4">>, <<"0", "3">>, <<"1", ".", "5">>, <<"2">>)}

Responses == SeqsUpTo(RawRows, MaxRows)

\* the responses fetch_ga4_data returns on, and those it raises on
ReturningResponses == {rows \in Responses : ~FetchRaises(rows)}

RaisingResponses == {rows \in Responses : FetchRaises(rows)}

MonthChars == {"0", "1", "3", "8"}

MetricValues ==
    {<<"1", "5", "0">>, <<"0", "7">>, <<"0">>, <<" ", "4", "2">>, <<"-", "3">>,
     <<>>, <<"1", ".", "5">>, <<"a">>}

RowInputs ==
    {ResponseRow(<<"2", "0", "2", "4">>, m, u, v) :
        m \in SeqsUpTo(MonthChars, MaxMonthLen) \ {<<>>},
        u \in MetricValues, v \in MetricValues}

----------------------------------------------------------------------------
(* Rendered elements *)

Element(kind, text, count, data) ==
    [kind |-> kind, text |-> text, count |-> count, data |-> data]

NoCredentialsText == "Upload GA4 Service Account JSON"

NoSiteText == "Select at least one site"

NoRegexText == "Enter at least one regex"

----------------------------------------------------------------------------
(* The run *)

Init ==
    /\ pc = "start"
    /\ fetch_btn \in BOOLEAN
    /\ cred_file \in CredFiles
    /\ selected_sites \in SiteSelections
    /\ regex_input \in RunTexts
    /\ creds_parsed = FALSE
    /\ client = FALSE
    /\ regex_list = <<>>
    /\ final_data = <<>>
    /\ pi = 0
    /\ ri = 0
    /\ outstanding = 0
    /\ requests = <<>>
    /\ responses = <<>>
    /\ shown = <<>>
    /\ exc = "none"
    /\ raw_row = <<>>
    /\ report_row = <<>>

runVars == <<creds_parsed, client, regex_list, final_data, pi, ri, outstanding,
             requests, responses>>

inputVars == <<fetch_btn, cred_file, selected_sites, regex_input, raw_row, report_row>>

\* line 124: the button was not pressed in this rerun
NoRun ==
    /\ pc = "start"
    /\ ~fetch_btn
    /\ pc' = "done"
    /\ UNCHANGED <<inputVars, runVars, shown, exc>>

\* lines 125-126
GateCredentials ==
    /\ pc = "start"
    /\ fetch_btn
    /\ cred_file = "none"
    /\ shown' = Append(shown, Element("error", NoCredentialsText, 0, <<>>))
    /\ pc' = "done"
    /\ UNCHANGED <<inputVars, runVars, exc>>

\* lines 127-128
GateSites ==
    /\ pc = "start"
    /\ fetch_btn
    /\ cred_file # "none"
    /\ selected_sites = <<>>
    /\ shown' = Append(shown, Element("error", NoSiteText, 0, <<>>))
    /\ pc' = "done"
    /\ UNCHANGED <<inputVars, runVars, exc>>

\* variant: the regex gate is tried before the site gate
GateRegexFirst ==
    /\ pc = "start"
    /\ fetch_btn
    /\ cred_file # "none"
    /\ strip(regex_input) = <<>>
    /\ shown' = Append(shown, Element("error", NoRegexText, 0, <<>>))
    /\ pc' = "done"
    /\ UNCHANGED <<inputVars, runVars, exc>>

\* lines 129-130
GateRegex ==
    /\ pc = "start"
    /\ fetch_btn
    /\ cred_file # "none"
    /\ selected_sites # <<>>
    /\ strip(regex_input) = <<>>
    /\ shown' = Append(shown, Element("error", NoRegexText, 0, <<>>))
    /\ pc' = "done"
    /\ UNCHANGED <<inputVars, runVars, exc>>

\* variant: the regex gate tests the text without stripping it
StartRunUnstripped ==
    /\ pc = "start"
    /\ fetch_btn
    /\ cred_file # "none"
    /\ selected_sites # <<>>
    /\ regex_input # <<>>
    /\ pc' = "auth"
    /\ UNCHANGED <<inputVars, runVars, shown, exc>>

\* lines 131-132: every gate passed
StartRun ==
    /\ pc = "start"
    /\ fetch_btn
    /\ cred_file # "none"
    /\ selected_sites # <<>>
    /\ strip(regex_input) # <<>>
    /\ pc' = "auth"
    /\ UNCHANGED <<inputVars, runVars, shown, exc>>

\* lines 133-140: json.loads or from_service_account_info raises
CredentialsFail ==
    /\ pc = "auth"
    /\ cred_file \in {"not_json", "not_service_account"}
    /\ creds_parsed' = TRUE
    /\ exc' = IF cred_file = "not_json" THEN "JSONDecodeError" ELSE "CredentialsError"
    /\ pc' = "done"
    /\ UNCHANGED <<inputVars, client, regex_list, final_data, pi, ri, outstanding,
                   requests, responses, shown>>

\* lines 133-147: credentials, client, regex_list, final_data, loop entry
BuildClient ==
    /\ pc = "auth"
    /\ cred_file = "service_account"
    /\ creds_parsed' = TRUE
    /\ client' = TRUE
    /\ regex_list' = RegexList(regex_input)
    /\ final_data' = <<>>
    /\ pi' = IF RegexList(regex_input) = <<>> THEN Len(selected_sites) + 1 ELSE 1
    /\ ri' = 1
    /\ pc' = "loop"
    /\ UNCHANGED <<inputVars, outstanding, requests, responses, shown, exc>>

\* variant: the request is sent without waiting for its response
SendRequestNoWait ==
    /\ pc = "loop"
    /\ pi <= Len(selected_sites)
    /\ ri <= Len(regex_list)
    /\ requests' = Append(requests,
                          [property  |-> selected_sites[pi],
                           site_name |-> view_id_name_mapping[selected_sites[pi]],
                           regex     |-> regex_list[ri]])
    /\ outstanding' = outstanding + 1
    /\ pi' = IF ri < Len(regex_list) THEN pi ELSE pi + 1
    /\ ri' = IF ri < Len(regex_list) THEN ri + 1 ELSE 1
    /\ UNCHANGED <<pc, inputVars, creds_parsed, client, regex_list, final_data,
                   responses, shown, exc>>

\* lines 149-159 and 88-109: the next pair's request goes out
SendRequest ==
    /\ pc = "loop"
    /\ pi <= Len(selected_sites)
    /\ ri <= Len(regex_list)
    /\ requests' = Append(requests,
                          [property  |-> selected_sites[pi],
                           site_name |-> view_id_name_mapping[selected_sites[pi]],
                           regex     |-> regex_list[ri]])
    /\ outstanding' = outstanding + 1
    /\ pc' = "wait"
    /\ UNCHANGED <<inputVars, creds_parsed, client, regex_list, final_data, pi, ri,
                   responses, shown, exc>>

\* variant: a failed call is recorded and the loops go on with the next pair
ServiceErrorSkipped ==
    /\ pc = "wait"
    /\ outstanding' = outstanding - 1
    /\ exc' = "ServiceCallError"
    /\ responses' = Append(responses, <<>>)
    /\ pi' = IF ri < Len(regex_list) THEN pi ELSE pi + 1
    /\ ri' = IF ri < Len(regex_list) THEN ri + 1 ELSE 1
    /\ pc' = "loop"
    /\ UNCHANGED <<inputVars, creds_parsed, client, regex_list, final_data,
                   requests, shown>>

\* line 109: client.run_report raises
ServiceError ==
    /\ pc = "wait"
    /\ outstanding' = outstanding - 1
    /\ exc' = "ServiceCallError"
    /\ pc' = "done"
    /\ UNCHANGED <<inputVars, creds_parsed, client, regex_list, final_data, pi, ri,
                   requests, responses, shown>>

\* lines 109-117: the response arrives and int() raises on one of its rows
MalformedMetric ==
    /\ pc = "wait"
    /\ RaisingResponses # {}
    /\ outstanding' = outstanding - 1
    /\ exc' = "ValueError"
    /\ pc' = "done"
    /\ UNCHANGED <<inputVars, creds_parsed, client, regex_list, final_data, pi, ri,
                   requests, responses, shown>>

\* variant: the call's rows are put in front of the dataset
ReceiveRowsPrepend ==
    /\ pc = "wait"
    /\ \E rows \in ReturningResponses :
        /\ responses' = Append(responses, rows)
        /\ final_data' =
               FetchRows(view_id_name_mapping[selected_sites[pi]], regex_list[ri], rows)
               \o final_data
    /\ outstanding' = outstanding - 1
    /\ pi' = IF ri < Len(regex_list) THEN pi ELSE pi + 1
    /\ ri' = IF ri < Len(regex_list) THEN ri + 1 ELSE 1
    /\ pc' = "loop"
    /\ UNCHANGED <<inputVars, creds_parsed, client, regex_list, requests, shown, exc>>

\* variant: the site name is looked up once, for the first property
ReceiveRowsStaleSite ==
    /\ pc = "wait"
    /\ \E rows \in ReturningResponses :
        /\ responses' = Append(responses, rows)
        /\ final_data' = final_data \o
               FetchRows(view_id_name_mapping[selected_sites[1]], regex_list[ri], rows)
    /\ outstanding' = outstanding - 1
    /\ pi' = IF ri < Len(regex_list) THEN pi ELSE pi + 1
    /\ ri' = IF ri < Len(regex_list) THEN ri + 1 ELSE 1
    /\ pc' = "loop"
    /\ UNCHANGED <<inputVars, creds_parsed, client, regex_list, requests, shown, exc>>

\* lines 109-121 and 147-150: the response arrives, its rows extend final_data,
\* and the loops move to the next pair (to the next property after the last regex)
ReceiveRows ==
    /\ pc = "wait"
    /\ \E rows \in ReturningResponses :
        /\ responses' = Append(responses, rows)
        /\ final_data' = final_data \o
               FetchRows(view_id_name_mapping[selected_sites[pi]], regex_list[ri], rows)
    /\ outstanding' = outstanding - 1
    /\ pi' = IF ri < Len(regex_list) THEN pi ELSE pi + 1
    /\ ri' = IF ri < Len(regex_list) THEN ri + 1 ELSE 1
    /\ pc' = "loop"
    /\ UNCHANGED <<inputVars, creds_parsed, client, regex_list, requests, shown, exc>>

\* variant: the "no data" warning is not in an else branch
RenderDataAndWarning ==
    /\ pc = "loop"
    /\ pi > Len(selected_sites)
    /\ final_data # <<>>
    /\ shown' = shown \o
          <<Element("success", "Data fetched", Len(final_data), <<>>),
            Element("dataframe", "", Len(final_data), final_data),
            Element("download_button", "ga4_category_report.csv", Len(final_data),
                    final_data),
            Element("warning", "No data returned", 0, <<>>)>>
    /\ pc' = "done"
    /\ UNCHANGED <<inputVars, runVars, exc>>

\* lines 161-173
RenderData ==
    /\ pc = "loop"
    /\ pi > Len(selected_sites)
    /\ final_data # <<>>
    /\ shown' = shown \o
          <<Element("success", "Data fetched", Len(final_data), <<>>),
            Element("dataframe", "", Len(final_data), final_data),
            Element("download_button", "ga4_category_report.csv", Len(final_data),
                    final_data)>>
    /\ pc' = "done"
    /\ UNCHANGED <<inputVars, runVars, exc>>

\* variant: only the last call's rows decide
RenderNoDataLastCall ==
    /\ pc = "loop"
    /\ pi > Len(selected_sites)
    /\ (responses = <<>> \/ responses[Len(responses)] = <<>>)
    /\ shown' = Append(shown, Element("warning", "No data returned", 0, <<>>))
    /\ pc' = "done"
    /\ UNCHANGED <<inputVars, runVars, exc>>

\* lines 174-175
RenderNoData ==
    /\ pc = "loop"
    /\ pi > Len(selected_sites)
    /\ final_data = <<>>
    /\ shown' = Append(shown, Element("warning", "No data returned", 0, <<>>))
    /\ pc' = "done"
    /\ UNCHANGED <<inputVars, runVars, exc>>

Next ==
    \/ NoRun
    \/ GateCredentials
    \/ GateSites
    \/ GateRegex
    \/ StartRun
    \/ CredentialsFail
    \/ BuildClient
    \/ SendRequest
    \/ ServiceError
    \/ MalformedMetric
    \/ ReceiveRows
    \/ RenderData
    \/ RenderNoData

Spec == Init /\ [][Next]_vars

----------------------------------------------------------------------------
(* The regex list as a function of the text *)

InitRegex ==
    /\ pc = "regex_in"
    /\ regex_input \in Texts
    /\ fetch_btn = TRUE
    /\ cred_file = "service_account"
    /\ selected_sites = <<>>
    /\ creds_parsed = FALSE
    /\ client = FALSE
    /\ regex_list = <<>>
    /\ final_data = <<>>
    /\ pi = 0
    /\ ri = 0
    /\ outstanding = 0
    /\ requests = <<>>
    /\ responses = <<>>
    /\ shown = <<>>
    /\ exc = "none"
    /\ raw_row = <<>>
    /\ report_row = <<>>

\* line 143
ApplyRegexList ==
    /\ pc = "regex_in"
    /\ regex_list' = RegexList(regex_input)
    /\ pc' = "regex_out"
    /\ UNCHANGED <<inputVars, creds_parsed, client, final_data, pi, ri, outstanding,
                   requests, responses, shown, exc>>

NextRegex == ApplyRegexList

SpecRegex == InitRegex /\ [][NextRegex]_vars

----------------------------------------------------------------------------
(* One response row through the loop body of fetch_ga4_data *)

RowSite == "DNA English"

RowRegex == <<"a">>

InitRow ==
    /\ pc = "row_in"
    /\ raw_row \in RowInputs
    /\ report_row = <<>>
    /\ regex_input = <<>>
    /\ fetch_btn = TRUE
    /\ cred_file = "service_account"
    /\ selected_sites = <<>>
    /\ creds_parsed = FALSE
    /\ client = FALSE
    /\ regex_list = <<>>
    /\ final_data = <<>>
    /\ pi = 0
    /\ ri = 0
    /\ outstanding = 0
    /\ requests = <<>>
    /\ responses = <<>>
    /\ shown = <<>>
    /\ exc = "none"

\* lines 113-119: the row's dict is built
ApplyReportRow ==
    /\ pc = "row_in"
    /\ ~RowRaises(raw_row)
    /\ report_row' = <<ReportRow(RowSite, RowRegex, raw_row)>>
    /\ pc' = "row_out"
    /\ UNCHANGED <<fetch_btn, cred_file, selected_sites, regex_input, raw_row, runVars,
                   shown, exc>>

\* lines 116-117: int() raises
ApplyRowRaises ==
    /\ pc = "row_in"
    /\ RowRaises(raw_row)
    /\ exc' = "ValueError"
    /\ pc' = "row_out"
    /\ UNCHANGED <<inputVars, runVars, shown>>

NextRow == ApplyReportRow \/ ApplyRowRaises

SpecRow == InitRow /\ [][NextRow]_vars

----------------------------------------------------------------------------
(* Vocabulary of the properties *)

Blank(text) == \A k \in 1..Len(text) : text[k] \in Whitespace

KindCount(kind) == Cardinality({k \in 1..Len(shown) : shown[k].kind = kind})

ErrorTexts == {shown[k].text : k \in {n \in 1..Len(shown) : shown[n].kind = "error"}}

GateFails == fetch_btn /\ (cred_file = "none" \/ selected_sites = <<>> \/ Blank(regex_input))

ResultShown ==
    \E k \in 1..Len(shown) : shown[k].kind \in {"success", "dataframe", "download_button"}

NoDataShown == KindCount("warning") > 0

FetchErrors == {"ServiceCallError", "ValueError"}

MatrixSize == Len(selected_sites) * Len(regex_list)

\* the k-th pair of the matrix, properties outer and regexes inner
PairProperty(k) == selected_sites[((k - 1) \div Len(regex_list)) + 1]

PairRegex(k) == regex_list[((k - 1) % Len(regex_list)) + 1]

RECURSIVE ConcatCalls(_)
ConcatCalls(n) ==
    IF n = 0 THEN <<>>
    ELSE ConcatCalls(n - 1) \o
         FetchRows(view_id_name_mapping[PairProperty(n)], PairRegex(n), responses[n])

RECURSIVE RowsBefore(_)
RowsBefore(k) == IF k = 0 THEN 0 ELSE RowsBefore(k - 1) + Len(responses[k])

AllEmpty == \A k \in 1..Len(responses) : responses[k] = <<>>

Conditions ==
    KindCount("error") + KindCount("success") + KindCount("warning")
        + (IF exc = "none" THEN 0 ELSE 1)

NonBlankLines(text) == SelectSeq(splitlines(text), LAMBDA l : ~Blank(l))

\* r is l without its leading and trailing whitespace
IsTrimOf(r, l) ==
    /\ r # <<>>
    /\ r[1] \notin Whitespace
    /\ r[Len(r)] \notin Whitespace
    /\ \E i \in 0..(Len(l) - Len(r)) :
        /\ SubSeq(l, i + 1, i + Len(r)) = r
        /\ \A k \in 1..i : l[k] \in Whitespace
        /\ \A k \in (i + Len(r) + 1)..Len(l) : l[k] \in Whitespace

PadLeft2(m) == IF Len(m) >= 2 THEN m ELSE [k \in 1..(2 - Len(m)) |-> "0"] \o m

\* the integers the metric values of the row inputs denote
ExpectedInt(s) ==
    CASE s = <<"1", "5", "0">> -> 150
      [] s = <<"0", "7">> -> 7
      [] s = <<"0">> -> 0
      [] s = <<" ", "4", "2">> -> 42
      [] s = <<"-", "3">> -> 0 - 3

----------------------------------------------------------------------------
(* Properties *)

\* C1: on a run the gates are tried in the order credentials, sites, regex
\* and only the first failing gate's message is shown: missing credentials
\* give the credentials error whatever the sites and the regex are, present
\* credentials with no site give the site error whatever the regex is, and
\* the regex error is shown exactly when credentials and sites are present
\* and the regex text is empty or whitespace only.
C1_GatePrecedence ==
    (pc = "done" /\ fetch_btn) =>
        /\ cred_file = "none" => ErrorTexts = {NoCredentialsText}
        /\ (cred_file # "none" /\ selected_sites = <<>>) => ErrorTexts = {NoSiteText}
        /\ (NoRegexText \in ErrorTexts) <=>
              (cred_file # "none" /\ selected_sites # <<>> /\ Blank(regex_input))
        /\ KindCount("error") <= 1

C1_Witness ==
    /\ pc = "done"
    /\ fetch_btn
    /\ cred_file = "none"
    /\ selected_sites = <<>>
    /\ regex_input = <<>>
    /\ ErrorTexts = {NoCredentialsText}

\* C2: when a validation gate fails the run never starts: the credentials
\* are not parsed, no client is built, no request is sent, and no dataset,
\* table or download is produced.
C2_NoWorkOnMissingInput ==
    GateFails =>
        /\ pc \in {"start", "done"}
        /\ ~creds_parsed
        /\ ~client
        /\ requests = <<>>
        /\ responses = <<>>
        /\ outstanding = 0
        /\ final_data = <<>>
        /\ ~ResultShown
        /\ exc = "none"

C2_Witness ==
    /\ pc = "done"
    /\ GateFails
    /\ cred_file = "not_json"
    /\ selected_sites # <<>>
    /\ regex_input = <<"\n", " ">>
    /\ KindCount("error") = 1

\* C3: when every call of the matrix has succeeded the dataset is the
\* concatenation of the calls' rows in traversal order (properties outer,
\* regexes inner), each call's rows in response order, nothing re-sorted,
\* merged or dropped; the table and the download show exactly that dataset.
C3_TraversalOrder ==
    (exc = "none" /\ client /\ pi > Len(selected_sites)) =>
        /\ Len(responses) = MatrixSize
        /\ LET dataset == ConcatCalls(MatrixSize)
           IN  /\ final_data = dataset
               /\ \A k \in 1..Len(shown) :
                     shown[k].kind \in {"dataframe", "download_button"} =>
                         shown[k].data = dataset

C3_Witness ==
    /\ pc = "done"
    /\ ResultShown
    /\ selected_sites = <<"424752920", "424738282">>
    /\ Len(regex_list) = 2
    /\ \A k \in 1..Len(responses) : Len(responses[k]) = 2
    /\ responses[1][1] # responses[1][2]
    /\ responses[2] # responses[1]
    /\ \E a, b \in 1..Len(final_data) : a # b /\ final_data[a] = final_data[b]

\* C4: once a call fails with a service error or a non-integer metric value
\* the run is over: nothing more can happen, no further request has been or
\* will be sent, and neither success message, table nor download is shown,
\* whatever rows earlier calls returned.
C4_FailureAborts ==
    (exc \in FetchErrors) =>
        /\ pc = "done"
        /\ ~ENABLED Next
        /\ outstanding = 0
        /\ Len(requests) = (pi - 1) * Len(regex_list) + ri
        /\ ~ResultShown
        /\ ~NoDataShown

C4_Witness ==
    /\ exc = "ValueError"
    /\ pc = "done"
    /\ final_data # <<>>
    /\ Len(requests) = 2
    /\ MatrixSize = 4
    /\ shown = <<>>

\* C5: when the matrix completes without error, "no data" is reported
\* exactly when every call returned zero rows, and the dataset is empty only
\* then; "no data" is never reported when a call failed or returned a row.
C5_NoDataIffAllEmpty ==
    /\ NoDataShown =>
          (pc = "done" /\ exc = "none" /\ Len(responses) = MatrixSize /\ AllEmpty)
    /\ (pc = "done" /\ exc = "none" /\ client) =>
          /\ NoDataShown <=> AllEmpty
          /\ (final_data = <<>>) <=> AllEmpty
          /\ ResultShown <=> ~AllEmpty

C5_Witness ==
    /\ pc = "done"
    /\ NoDataShown
    /\ Len(responses) = 4
    /\ AllEmpty

\* C6: in every state every row of the dataset carries the regex passed to
\* the call that produced it and the directory's display name of the
\* property that call queried.
C6_RowProvenance ==
    /\ Len(final_data) = RowsBefore(Len(responses))
    /\ \A k \in 1..Len(responses) :
          LET first == RowsBefore(k - 1)
          IN  \A m \in 1..Len(responses[k]) :
                /\ final_data[first + m].Regex = requests[k].regex
                /\ final_data[first + m].Site =
                      view_id_name_mapping[requests[k].property]

C6_Witness ==
    /\ Len(final_data) >= 4
    /\ \E a, b \in 1..Len(final_data) :
          /\ final_data[a].Site # final_data[b].Site
          /\ final_data[a].Regex = final_data[b].Regex
    /\ \E a, b \in 1..Len(final_data) :
          /\ final_data[a].Site = final_data[b].Site
          /\ final_data[a].Regex # final_data[b].Regex

\* C7: a run shows exactly one condition: an error (a gate's message or the
\* exception that ended the script), success with data, or no data; never
\* two at any moment and never none at its end.
C7_ExactlyOneCondition ==
    /\ Conditions <= 1
    /\ (pc = "done" /\ fetch_btn) => Conditions = 1
    /\ ResultShown => KindCount("success") = 1

C7_Witness ==
    /\ pc = "done"
    /\ fetch_btn
    /\ exc = "CredentialsError"
    /\ shown = <<>>

\* C8: requests go out one at a time, each answered before the next is
\* sent, and a run without failure sends exactly one request per pair of
\* the matrix, in traversal order.
C8_OneRequestPerPair ==
    /\ outstanding \in {0, 1}
    /\ Len(requests) = Len(responses) + outstanding
          + (IF exc \in FetchErrors THEN 1 ELSE 0)
    /\ client => \A k \in 1..Len(requests) :
          /\ k <= MatrixSize
          /\ requests[k].property = PairProperty(k)
          /\ requests[k].regex = PairRegex(k)
    /\ (pc = "done" /\ exc = "none" /\ client) => Len(requests) = MatrixSize

C8_Witness ==
    /\ pc = "done"
    /\ exc = "none"
    /\ Len(requests) = 4
    /\ requests[2].property = requests[1].property
    /\ requests[3].property # requests[1].property
    /\ requests[2].regex # requests[1].regex

\* C9 as stated: the regex list equals the text's non-blank lines, in order.
C9_ListIsNonBlankLines ==
    pc = "regex_out" => regex_list = NonBlankLines(regex_input)

\* C9: the regex list is the text's non-blank lines in their order, repeated
\* ones kept, each with its leading and trailing whitespace removed.
C9_ListIsTrimmedNonBlankLines ==
    pc = "regex_out" =>
        /\ Len(regex_list) = Len(NonBlankLines(regex_input))
        /\ \A k \in 1..Len(regex_list) :
              IsTrimOf(regex_list[k], NonBlankLines(regex_input)[k])

C9_Witness ==
    /\ pc = "regex_out"
    /\ regex_input = <<" ", "a", "\n", "\n", "a">>
    /\ regex_list = <<<<"a">>, <<"a">>>>

\* C10: a row's Year_Month is its year, "-", and its month padded on the
\* left with "0" to two characters (longer months unchanged); Total_Users
\* and Pageviews are the integers its two metric values denote.
C10_RowFields ==
    (pc = "row_out" /\ report_row # <<>>) =>
        /\ report_row[1].Year_Month =
              raw_row.dimension_values[1] \o <<"-">> \o PadLeft2(raw_row.dimension_values[2])
        /\ report_row[1].Total_Users = ExpectedInt(raw_row.metric_values[1])
        /\ report_row[1].Pageviews = ExpectedInt(raw_row.metric_values[2])

C10_Witness ==
    /\ pc = "row_out"
    /\ raw_row.dimension_values[2] = <<"3">>
    /\ report_row # <<>>
    /\ report_row[1].Year_Month = <<"2", "0", "2", "4", "-", "0", "3">>
    /\ report_row[1].Total_Users = 150
    /\ report_row[1].Pageviews = 7

====
